---- MODULE Spec2Model ----
(***************************************************************************)
(* The unified activity feed of the review/complaint platform.             *)
(*                                                                         *)
(* Two versions of FeedService.getFeed exist in the repository:            *)
(*   "chunk" : the chunk-buffer merge (reviewBuffer / complaintBuffer and  *)
(*             a while loop that refills the buffers limit rows at a time) *)
(*   "slice" : the sort-and-slice version (take page*limit + limit rows of *)
(*             each table, concatenate, sort, slice)                       *)
(* The store (Prisma) is modelled by two tables kept in the order in which *)
(* the store returns rows for orderBy createdAt desc; rows that share a    *)
(* createdAt are in an arbitrary order, fixed as long as the table is      *)
(* unchanged.                                                              *)
(***************************************************************************)
EXTENDS Integers, Sequences, FiniteSets, TLC

\* ---- bounds of the model ------------------------------------------------
MaxRows == 3
MaxTime == 3
MaxLimit == 2
MaxPage == 3

\* ---- value domains ------------------------------------------------------
Clients == {"c1"}
Impls == {"chunk", "slice"}
Statuses == {"APPROVED", "PENDING"}
Categories == {"cex", "dex"}
\* the category query argument; "" stands for an absent or empty argument
CategoryArgs == {"", "cex"}
None == <<>>

VARIABLES
  reviews,      \* review table, in the store's createdAt-desc order
  complaints,   \* complaint table, in the store's createdAt-desc order
  impl,         \* which FeedService version is deployed
  limit,        \* the limit the caller uses for its requests
  category,     \* the category the caller uses for its requests
  call,         \* per client: the locals of the getFeed call in flight
  hist,         \* per client: responses received for pages 1..Len(hist)
  again,        \* per client: response of a repeated request of the last page
  query,        \* per client: the raw page and limit of the HTTP query, if any
  voting,       \* the vote rows and vote counters of one review, complaint and comment
  auth,         \* the session table, the clock and the last guard decision
  replying,     \* the complaints, their replies and the reply requests in flight
  store,        \* the legacy JSON store, its write lock and its callers
  gate          \* the request the CSRF middleware decided last

\* the state of the services other than the feed
others == <<voting, auth, replying, store, gate>>

vars == <<reviews, complaints, impl, limit, category, call, hist, again, query, others>>

\* ---- small helpers ------------------------------------------------------
Min(a, b) == IF a < b THEN a ELSE b

RECURSIVE Flatten(_)
Flatten(ss) == IF ss = <<>> THEN <<>> ELSE Head(ss) \o Flatten(Tail(ss))

Range(s) == {s[i] : i \in 1..Len(s)}

\* ---- the store ----------------------------------------------------------
\* `category && { company: { category } }`: a falsy category adds no condition
Truthy(c) == c # ""

\* a plausible slip: the status condition left out of reviewWhere
ReviewWhereAnyStatus(c, row) == Truthy(c) => row.category = c

ReviewWhere(c, row) ==
  /\ row.status = "APPROVED"
  /\ Truthy(c) => row.category = c

ComplaintWhere(c, row) ==
  Truthy(c) => row.category = c

MatchingReviews(c) == SelectSeq(reviews, LAMBDA row : ReviewWhere(c, row))
MatchingComplaints(c) == SelectSeq(complaints, LAMBDA row : ComplaintWhere(c, row))

\* prisma.<model>.count({ where })
CountReviews(c) == Len(MatchingReviews(c))
CountComplaints(c) == Len(MatchingComplaints(c))

\* prisma.<model>.findMany({ where, orderBy: { createdAt: 'desc' }, skip, take })
\* applied to the rows that satisfy where
FindMany(rows, skip, take) ==
  IF skip >= Len(rows) THEN <<>>
  ELSE SubSeq(rows, skip + 1, Min(skip + take, Len(rows)))

\* .map((row) => ({ ...row, type })) of the selected fields
Tag(rows, type) ==
  [i \in 1..Len(rows) |->
     [type |-> type, id |-> rows[i].id, createdAt |-> rows[i].createdAt]]

\* ---- pagination ---------------------------------------------------------
\* a plausible slip: Math.floor in place of Math.ceil
Floor(total, lim) == total \div lim

\* a plausible slip: an empty feed reported as one page
CeilAtLeastOne(total, lim) ==
  IF total = 0 THEN 1 ELSE (total + lim - 1) \div lim

\* Math.ceil(total / limit); a division by 0 gives Infinity, 0 / 0 gives NaN
Ceil(total, lim) ==
  IF lim = 0 THEN (IF total = 0 THEN "NaN" ELSE "Infinity")
  ELSE (total + lim - 1) \div lim

\* a plausible slip: the slice starts at 0 instead of (page - 1) * limit
PageSliceFromStart(s, page, lim) ==
  IF s = <<>> THEN <<>> ELSE SubSeq(s, 1, Min(page * lim, Len(s)))

\* the index Array.prototype.slice makes of an argument: a negative one counts
\* from the end, and the result is kept within 0..len
RelativeIndex(k, len) ==
  IF k < 0 THEN (IF len + k < 0 THEN 0 ELSE len + k) ELSE Min(k, len)

\* Array.prototype.slice((page - 1) * limit, page * limit)
PageSlice(s, page, lim) ==
  LET from == RelativeIndex((page - 1) * lim, Len(s))
      to == RelativeIndex(page * lim, Len(s))
  IN IF from >= to THEN <<>> ELSE SubSeq(s, from + 1, to)

Pagination(page, lim, total, totalPages) ==
  [page |-> page, limit |-> lim, total |-> total, totalPages |-> totalPages]

Response(items, pagination) == [items |-> items, pagination |-> pagination]

\* ---- FeedService.getFeed, chunk-buffer version ---------------------------
\* the locals of a getFeed call before it starts
IdleCall ==
  [pc |-> "idle", page |-> 0, limit |-> 0, category |-> "",
   total |-> 0, reviewSkip |-> 0, complaintSkip |-> 0,
   reviewBuffer |-> <<>>, complaintBuffer |-> <<>>, merged |-> <<>>,
   result |-> None,
   fetches |-> <<>>,   \* the findMany queries issued so far, in order
   iters |-> 0,        \* the number of times the loop body was entered
   error |-> None,     \* the query whose rejection ended the call, if any
   changes |-> 0]      \* the writes other requests made to the tables meanwhile

\* const targetCount = page * limit
TargetCount(c) == c.page * c.limit

\* a plausible slip: the refill without take
FetchAllReviews(c, skip) ==
  Tag(FindMany(MatchingReviews(c.category), skip, Len(reviews)), "review")

\* fetchReviewChunk(skip) / fetchComplaintChunk(skip): take is limit
FetchReviewChunk(c, skip) ==
  Tag(FindMany(MatchingReviews(c.category), skip, c.limit), "review")

FetchComplaintChunk(c, skip) ==
  Tag(FindMany(MatchingComplaints(c.category), skip, c.limit), "complaint")

\* the record of one findMany: its table, skip and take, how many rows the
\* buffer of that table held when it was issued, and how many rows came back
Fetched(source, skip, take, held, rows) ==
  [source |-> source, skip |-> skip, take |-> take, held |-> held, rows |-> rows]

\* the loop body is entered by the first step taken from the head of the loop
Entered(c) == IF c.pc = "loop" THEN c.iters + 1 ELSE c.iters

BothEmpty(c) == c.reviewBuffer = <<>> /\ c.complaintBuffer = <<>>

\* a plausible slip: the comparison turned around
PickOlderReview(rb, cb) ==
  /\ rb # <<>>
  /\ (cb = <<>> \/ rb[1].createdAt < cb[1].createdAt)

\* a plausible slip: >= in place of >, a tie goes to the review
PickReviewOnTie(rb, cb) ==
  /\ rb # <<>>
  /\ (cb = <<>> \/ rb[1].createdAt >= cb[1].createdAt)

\* nextReview && (!nextComplaint || nextReview.createdAt > nextComplaint.createdAt)
PickReview(rb, cb) ==
  /\ rb # <<>>
  /\ (cb = <<>> \/ rb[1].createdAt > cb[1].createdAt)

\* positions inside one iteration of the while loop
AtRefillReviews(c) ==
  c.pc = "loop" /\ Len(c.merged) < TargetCount(c) /\ ~BothEmpty(c)
AtRefillComplaints(c) ==
  c.pc = "afterReviews" \/ (AtRefillReviews(c) /\ c.reviewBuffer # <<>>)
AtSelect(c) ==
  c.pc = "afterComplaints" \/ (AtRefillComplaints(c) /\ c.complaintBuffer # <<>>)

\* items = merged.slice(...); return { items, pagination }
ChunkResponse(c) ==
  Response(PageSlice(c.merged, c.page, c.limit),
           Pagination(c.page, c.limit, c.total, Ceil(c.total, c.limit)))

\* the caller receives the response of the call of client r
Deliver(r, c, resp) ==
  /\ call' = [call EXCEPT ![r] = [c EXCEPT !.pc = "done", !.result = <<resp>>]]
  /\ IF c.page = Len(hist[r]) + 1
       THEN /\ hist' = [hist EXCEPT ![r] = Append(@, resp)]
            /\ UNCHANGED again
       ELSE /\ again' = [again EXCEPT ![r] = <<resp>>]
            /\ UNCHANGED hist

\* a plausible slip: the cursors kept on the service instead of in the call
ReusedCall(r, p) ==
  [IdleCall EXCEPT !.pc = "count", !.page = p,
                   !.limit = limit, !.category = category,
                   !.reviewSkip = call[r].reviewSkip,
                   !.complaintSkip = call[r].complaintSkip]

\* a plausible slip: one pair of cursors on the service, shared by every call
SharedCursorCall(r, p) ==
  LET q == CHOOSE x \in DOMAIN call :
             \A y \in DOMAIN call : call[y].reviewSkip <= call[x].reviewSkip
  IN [IdleCall EXCEPT !.pc = "count", !.page = p,
                      !.limit = limit, !.category = category,
                      !.reviewSkip = call[q].reviewSkip,
                      !.complaintSkip = call[q].complaintSkip]

\* the locals of a call that starts: page, limit and category are the arguments,
\* every other local is fresh
FreshCall(r, p) ==
  [IdleCall EXCEPT !.pc = "count", !.page = p,
                   !.limit = limit, !.category = category]

\* the caller walks through the feed: page 1, then the next page as long as the
\* page it asks for is at most one past the totalPages it was told
Call(r) ==
  /\ call[r].pc \in {"idle", "done"}
  /\ \E p \in 1..MaxPage :
       /\ p = Len(hist[r]) + 1
       /\ p > 1 => p <= hist[r][p - 1].pagination.totalPages + 1
       /\ call' = [call EXCEPT ![r] = FreshCall(r, p)]
  /\ again' = [again EXCEPT ![r] = None]
  /\ UNCHANGED <<others, query, reviews, complaints, impl, limit, category, hist>>

\* the caller asks once more for the page it received last
Recall(r) ==
  /\ call[r].pc = "done"
  /\ hist[r] # <<>>
  /\ again[r] = None
  /\ call' = [call EXCEPT ![r] = FreshCall(r, Len(hist[r]))]
  /\ UNCHANGED <<others, query, reviews, complaints, impl, limit, category, hist, again>>

\* a plausible slip: no return when the counts sum to 0
CountRowsThenFetch(r) ==
  LET c == call[r]
      total == CountReviews(c.category) + CountComplaints(c.category)
  IN /\ impl = "chunk"
     /\ c.pc = "count"
     /\ call' = [call EXCEPT ![r] = [c EXCEPT !.total = total, !.pc = "fetchReviews"]]
     /\ UNCHANGED <<others, query, reviews, complaints, impl, limit, category, hist, again>>

\* Promise.all of the two counts; total === 0 returns at once
CountRows(r) ==
  LET c == call[r]
      total == CountReviews(c.category) + CountComplaints(c.category)
      counted == [c EXCEPT !.total = total]
  IN /\ impl = "chunk"
     /\ c.pc = "count"
     /\ IF total = 0
          THEN Deliver(r, counted,
                       Response(<<>>, Pagination(c.page, c.limit, total, 0)))
          ELSE /\ call' = [call EXCEPT ![r] = [counted EXCEPT !.pc = "fetchReviews"]]
               /\ UNCHANGED <<hist, again>>
     /\ UNCHANGED <<others, query, reviews, complaints, impl, limit, category>>

\* let reviewBuffer = (await fetchReviewChunk(reviewSkip)).map(...)
FetchReviews(r) ==
  LET c == call[r]
  IN /\ c.pc = "fetchReviews"
     /\ call' = [call EXCEPT ![r] =
                   [c EXCEPT !.pc = "fetchComplaints",
                             !.reviewBuffer = FetchReviewChunk(c, c.reviewSkip),
                             !.fetches = Append(@, Fetched("review", c.reviewSkip, c.limit,
                                 Len(c.reviewBuffer),
                                 Len(FetchReviewChunk(c, c.reviewSkip))))]]
     /\ UNCHANGED <<others, query, reviews, complaints, impl, limit, category, hist, again>>

\* let complaintBuffer = ...; reviewSkip += ...; complaintSkip += ...; merged = []
FetchComplaints(r) ==
  LET c == call[r]
      cb == FetchComplaintChunk(c, c.complaintSkip)
  IN /\ c.pc = "fetchComplaints"
     /\ call' = [call EXCEPT ![r] =
                   [c EXCEPT !.pc = "loop",
                             !.complaintBuffer = cb,
                             !.reviewSkip = @ + Len(c.reviewBuffer),
                             !.complaintSkip = @ + Len(cb),
                             !.merged = <<>>,
                             !.fetches = Append(@, Fetched("complaint", c.complaintSkip,
                                 c.limit, Len(c.complaintBuffer), Len(cb)))]]
     /\ UNCHANGED <<others, query, reviews, complaints, impl, limit, category, hist, again>>

\* the while condition fails, or the break at the top of the loop body
LoopExit(r) ==
  LET c == call[r]
  IN /\ c.pc = "loop"
     /\ (Len(c.merged) >= TargetCount(c) \/ BothEmpty(c))
     /\ Deliver(r, [c EXCEPT !.iters = IF Len(c.merged) < TargetCount(c) THEN @ + 1 ELSE @],
                ChunkResponse(c))
     /\ UNCHANGED <<others, query, reviews, complaints, impl, limit, category>>

\* a plausible slip: the cursor advanced by the size asked for, not by the
\* number of rows received
RefillReviewsByLimit(r) ==
  LET c == call[r]
      rb == FetchReviewChunk(c, c.reviewSkip)
  IN /\ AtRefillReviews(c)
     /\ c.reviewBuffer = <<>>
     /\ call' = [call EXCEPT ![r] =
                   [c EXCEPT !.pc = "afterReviews",
                             !.reviewBuffer = rb,
                             !.reviewSkip = @ + c.limit,
                             !.iters = Entered(c),
                             !.fetches = Append(@, Fetched("review", c.reviewSkip, c.limit,
                                 Len(c.reviewBuffer), Len(rb)))]]
     /\ UNCHANGED <<others, query, reviews, complaints, impl, limit, category, hist, again>>

\* if (reviewBuffer.length === 0) { reviewBuffer = await ...; reviewSkip += ... }
RefillReviews(r) ==
  LET c == call[r]
      rb == FetchReviewChunk(c, c.reviewSkip)
  IN /\ AtRefillReviews(c)
     /\ c.reviewBuffer = <<>>
     /\ call' = [call EXCEPT ![r] =
                   [c EXCEPT !.pc = "afterReviews",
                             !.reviewBuffer = rb,
                             !.reviewSkip = @ + Len(rb),
                             !.iters = Entered(c),
                             !.fetches = Append(@, Fetched("review", c.reviewSkip, c.limit,
                                 Len(c.reviewBuffer), Len(rb)))]]
     /\ UNCHANGED <<others, query, reviews, complaints, impl, limit, category, hist, again>>

\* if (complaintBuffer.length === 0) { complaintBuffer = await ...; ... }
RefillComplaints(r) ==
  LET c == call[r]
      cb == FetchComplaintChunk(c, c.complaintSkip)
  IN /\ AtRefillComplaints(c)
     /\ c.complaintBuffer = <<>>
     /\ call' = [call EXCEPT ![r] =
                   [c EXCEPT !.pc = "afterComplaints",
                             !.complaintBuffer = cb,
                             !.complaintSkip = @ + Len(cb),
                             !.iters = Entered(c),
                             !.fetches = Append(@, Fetched("complaint", c.complaintSkip,
                                 c.limit, Len(c.complaintBuffer), Len(cb)))]]
     /\ UNCHANGED <<others, query, reviews, complaints, impl, limit, category, hist, again>>

\* a plausible slip: a head that merged already holds is dropped, and the
\* iteration ends without a push
SelectNextSkipSeen(r) ==
  LET c == call[r]
      fromReviews == PickReview(c.reviewBuffer, c.complaintBuffer)
      head == IF fromReviews THEN c.reviewBuffer[1] ELSE c.complaintBuffer[1]
      shifted == IF fromReviews THEN [c EXCEPT !.reviewBuffer = Tail(@)]
                 ELSE [c EXCEPT !.complaintBuffer = Tail(@)]
  IN /\ AtSelect(c)
     /\ IF BothEmpty(c)
          THEN Deliver(r, [c EXCEPT !.iters = Entered(c)], ChunkResponse(c))
          ELSE /\ call' = [call EXCEPT ![r] =
                    [shifted EXCEPT !.pc = "loop",
                                    !.iters = Entered(c),
                                    !.merged = IF head \in Range(c.merged) THEN @
                                               ELSE Append(@, head)]]
               /\ UNCHANGED <<hist, again>>
     /\ UNCHANGED <<others, query, reviews, complaints, impl, limit, category>>

\* the second break, then push the newer head and shift its buffer
SelectNext(r) ==
  LET c == call[r]
  IN /\ AtSelect(c)
     /\ IF BothEmpty(c)
          THEN Deliver(r, [c EXCEPT !.iters = Entered(c)], ChunkResponse(c))
          ELSE /\ call' = [call EXCEPT ![r] =
                    IF PickReview(c.reviewBuffer, c.complaintBuffer)
                      THEN [c EXCEPT !.pc = "loop",
                                     !.iters = Entered(c),
                                     !.merged = Append(@, c.reviewBuffer[1]),
                                     !.reviewBuffer = Tail(@)]
                      ELSE [c EXCEPT !.pc = "loop",
                                     !.iters = Entered(c),
                                     !.merged = Append(@, c.complaintBuffer[1]),
                                     !.complaintBuffer = Tail(@)]]
               /\ UNCHANGED <<hist, again>>
     /\ UNCHANGED <<others, query, reviews, complaints, impl, limit, category>>

\* ---- FeedService.getFeed, sort-and-slice version -------------------------
\* a plausible slip: one page of rows per table whatever the page
SliceTakeOnePage(page, lim) == lim

\* take: page * limit + limit
SliceTake(page, lim) == page * lim + lim

\* a plausible slip: a and b exchanged in the comparator
CompareAscending(a, b) == a.createdAt - b.createdAt

\* the comparator: new Date(b.createdAt).getTime() - new Date(a.createdAt).getTime()
Compare(a, b) == b.createdAt - a.createdAt

\* Array.prototype.sort is stable: x goes behind every element that does not
\* compare greater than it
RECURSIVE Insert(_, _)
Insert(x, s) ==
  IF s = <<>> THEN <<x>>
  ELSE IF Compare(Head(s), x) > 0 THEN <<x>> \o s
  ELSE <<Head(s)>> \o Insert(x, Tail(s))

RECURSIVE Sort(_)
Sort(s) ==
  IF s = <<>> THEN <<>>
  ELSE Insert(s[Len(s)], Sort(SubSeq(s, 1, Len(s) - 1)))

\* Promise.all of the counts and the two findMany, then sort, slice and return
SliceGetFeed(r) ==
  LET c == call[r]
      take == SliceTake(c.page, c.limit)
      rs == Tag(FindMany(MatchingReviews(c.category), 0, take), "review")
      cs == Tag(FindMany(MatchingComplaints(c.category), 0, take), "complaint")
      items == PageSlice(Sort(rs \o cs), c.page, c.limit)
      total == CountReviews(c.category) + CountComplaints(c.category)
  IN /\ impl = "slice"
     /\ c.pc = "count"
     /\ Deliver(r, [c EXCEPT !.total = total],
                Response(items, Pagination(c.page, c.limit, total, Ceil(total, c.limit))))
     /\ UNCHANGED <<others, query, reviews, complaints, impl, limit, category>>

\* ---- the other services at rest -------------------------------------------
\* the targets of votes: one review, one complaint, one comment
Kinds == {"review", "complaint", "comment"}

\* helpfulCount and downVoteCount default to 0
NoCounts == [helpfulCount |-> 0, downVoteCount |-> 0]

\* no vote has been cast
VotingIdle ==
  [rows |-> [k \in Kinds |-> {}],         \* helpfulVote, complaintVote, commentVote rows
   counts |-> [k \in Kinds |-> NoCounts], \* the counters stored on the target
   recent |-> <<>>,                        \* the last two finished calls
   calls |-> <<>>]                         \* the comment vote requests in flight

\* no session exists
AuthIdle ==
  [rows |-> {},        \* session rows: userId, token, expiresAt
   now |-> 0,          \* the clock
   loggedOut |-> {},   \* the tokens whose row a logout has deleted
   last |-> None]      \* the decision of the last guarded request

\* the two requests that may be in flight together
Requests == {"a", "b"}

\* a reply request that has not started
IdleReply ==
  [pc |-> "idle", id |-> "", status |-> "", companyId |-> "", wrote |-> FALSE]

\* no complaint, no company, no reply
ReplyingIdle ==
  [complaints |-> {},   \* complaint rows: id, status, companyId
   companies |-> {},    \* the ids of the company rows
   replies |-> {},      \* complaintReply rows: by, complaintId, companyId
   calls |-> [q \in Requests |-> IdleReply]]

\* createInitialStore, as far as the accounts go: no user, no session
InitialStore == [users |-> {}, sessions |-> 0]

\* the store before any updateStore call; writeLock = Promise.resolve()
StoreIdle ==
  [cache |-> InitialStore,   \* the object loadStore returns
   disk |-> InitialStore,    \* what persist wrote last
   links |-> <<>>]           \* the promises chained on writeLock, oldest first

\* no request has come to the CSRF middleware
GateIdle == None

OthersIdle ==
  /\ voting = VotingIdle
  /\ auth = AuthIdle
  /\ replying = ReplyingIdle
  /\ store = StoreIdle
  /\ gate = GateIdle

\* ---- initial states -----------------------------------------------------
Times == 1..MaxTime

SortedTimes(n) ==
  {ts \in [1..n -> Times] : \A i \in 1..(n - 1) : ts[i] >= ts[i + 1]}

\* ids grow with createdAt (a later row has a larger id); the store returns the
\* rows of one instant either in ascending or in descending id order
IdOrders(ts) ==
  LET n == Len(ts)
      Older(i) == Cardinality({j \in 1..n : ts[j] < ts[i]})
      Before(i) == Cardinality({j \in 1..(i - 1) : ts[j] = ts[i]})
      After(i) == Cardinality({j \in (i + 1)..n : ts[j] = ts[i]})
  IN {[i \in 1..n |-> Older(i) + Before(i) + 1],
      [i \in 1..n |-> Older(i) + After(i) + 1]}

\* createdAt values are ranks: the instants in use are 1..k for some k
DenseTimes(ts, us) ==
  LET used == Range(ts) \cup Range(us)
  IN \A t \in used : \A u \in 1..t : u \in used

ReviewTable(ids, ts, st, cat) ==
  [i \in 1..Len(ts) |-> [id |-> ids[i], createdAt |-> ts[i],
                         status |-> st[i], category |-> cat[i]]]

ComplaintTable(ids, ts, cat) ==
  [i \in 1..Len(ts) |-> [id |-> ids[i], createdAt |-> ts[i], category |-> cat[i]]]

MaxSmallRows == 2

\* the tables of at most k rows
TablesUpTo(k) ==
  \E n \in 0..k, m \in 0..k :
    /\ n + m <= k
    /\ \E ts \in SortedTimes(n), us \in SortedTimes(m) :
         /\ DenseTimes(ts, us)
         /\ \E ids \in IdOrders(ts), st \in [1..n -> Statuses],
               cat \in [1..n -> Categories] :
              reviews = ReviewTable(ids, ts, st, cat)
         /\ \E ids \in IdOrders(us), cat \in [1..m -> Categories] :
              complaints = ComplaintTable(ids, us, cat)

InitTables == TablesUpTo(MaxRows)

Init ==
  /\ InitTables
  /\ impl \in Impls
  /\ limit \in 1..MaxLimit
  /\ category \in CategoryArgs
  /\ OthersIdle
  /\ call = [r \in Clients |-> IdleCall]
  /\ hist = [r \in Clients |-> <<>>]
  /\ again = [r \in Clients |-> None]
  /\ query = [r \in Clients |-> None]

Next ==
  \E r \in Clients :
    \/ Call(r)
    \/ CountRows(r)
    \/ FetchReviews(r)
    \/ FetchComplaints(r)
    \/ LoopExit(r)
    \/ RefillReviews(r)
    \/ RefillComplaints(r)
    \/ SelectNext(r)
    \/ SliceGetFeed(r)

Spec == Init /\ [][Next]_vars

\* the same system with a caller that also repeats requests
NextRepeat == Next \/ \E r \in Clients : Recall(r)

SpecRepeat == Init /\ [][NextRepeat]_vars

\* ---- one request on tables whose rows all match ---------------------------
MaxPlainRows == 4

\* every review APPROVED, every row of category "cex"
InitPlainTables(k) ==
  \E n \in 0..k, m \in 0..k :
    /\ n + m <= k
    /\ \E ts \in SortedTimes(n), us \in SortedTimes(m) :
         /\ DenseTimes(ts, us)
         /\ \E ids \in IdOrders(ts) :
              reviews = ReviewTable(ids, ts, [i \in 1..n |-> "APPROVED"],
                                    [i \in 1..n |-> "cex"])
         /\ \E ids \in IdOrders(us) :
              complaints = ComplaintTable(ids, us, [i \in 1..m |-> "cex"])

\* a caller asks for one page, any page
Request(r) ==
  /\ call[r].pc = "idle"
  /\ \E p \in 1..MaxPage : call' = [call EXCEPT ![r] = FreshCall(r, p)]
  /\ UNCHANGED <<others, query, reviews, complaints, impl, limit, category, hist, again>>

InitOne ==
  /\ InitPlainTables(MaxPlainRows)
  /\ impl \in Impls
  /\ limit \in 1..MaxLimit
  /\ category \in CategoryArgs
  /\ OthersIdle
  /\ call = [r \in Clients |-> IdleCall]
  /\ hist = [r \in Clients |-> <<>>]
  /\ again = [r \in Clients |-> None]
  /\ query = [r \in Clients |-> None]

NextOne ==
  \E r \in Clients :
    \/ Request(r)
    \/ CountRows(r)
    \/ FetchReviews(r)
    \/ FetchComplaints(r)
    \/ LoopExit(r)
    \/ RefillReviews(r)
    \/ RefillComplaints(r)
    \/ SelectNext(r)
    \/ SliceGetFeed(r)

SpecOne == InitOne /\ [][NextOne]_vars

\* ---- the store rejects a query --------------------------------------------
\* the queries the call is about to await
Pending(c) ==
  IF c.pc = "count"
    THEN IF impl = "chunk"
           THEN {"review.count", "complaint.count"}
           ELSE {"review.count", "complaint.count", "review.findMany", "complaint.findMany"}
  ELSE IF c.pc = "fetchReviews" \/ (AtRefillReviews(c) /\ c.reviewBuffer = <<>>)
    THEN {"review.findMany"}
  ELSE IF c.pc = "fetchComplaints" \/ (AtRefillComplaints(c) /\ c.complaintBuffer = <<>>)
    THEN {"complaint.findMany"}
  ELSE {}

\* a plausible slip: the rejection caught and answered with an empty feed
RejectCaught(r) ==
  LET c == call[r]
  IN /\ \E q \in Pending(c) :
          Deliver(r, [c EXCEPT !.error = <<[query |-> q, after |-> Len(c.fetches)]>>],
                  Response(<<>>, Pagination(c.page, c.limit, 0, 0)))
     /\ UNCHANGED <<others, query, reviews, complaints, impl, limit, category>>

\* an awaited query rejects: getFeed has no try/catch, so the await throws and
\* the promise of getFeed rejects with that error
Reject(r) ==
  LET c == call[r]
  IN /\ \E q \in Pending(c) :
          call' = [call EXCEPT ![r] =
                     [c EXCEPT !.pc = "failed",
                               !.error = <<[query |-> q, after |-> Len(c.fetches)]>>]]
     /\ UNCHANGED <<others, query, reviews, complaints, impl, limit, category, hist, again>>

NextFail == NextOne \/ \E r \in Clients : Reject(r)

SpecFail == InitOne /\ [][NextFail]_vars

\* ---- the tables change while a call runs -----------------------------------
MaxChanges == 1

InFlight(c) == c.pc \notin {"idle", "done", "failed"}

\* the createdAt of a row written now: not before any row of the tables
Now ==
  LET ts == {reviews[i].createdAt : i \in 1..Len(reviews)}
              \cup {complaints[i].createdAt : i \in 1..Len(complaints)}
      newest == IF ts = {} THEN 0 ELSE CHOOSE t \in ts : \A u \in ts : u <= t
  IN Min(MaxTime, newest + 1)

\* an id no row of the table has and the call holds nowhere
FreshId(rows, c, type) ==
  LET used == {rows[i].id : i \in 1..Len(rows)}
                \cup {x.id : x \in {y \in Range(c.merged \o c.reviewBuffer \o c.complaintBuffer) :
                                      y.type = type}}
  IN CHOOSE n \in 1..(Cardinality(used) + 1) : n \notin used

Changed(r) == [call EXCEPT ![r] = [@ EXCEPT !.changes = @ + 1]]

\* another request creates an approved review while the call of r is suspended
InsertReview(r) ==
  /\ InFlight(call[r]) /\ call[r].changes < MaxChanges
  /\ reviews' = <<[id |-> FreshId(reviews, call[r], "review"), createdAt |-> Now,
                   status |-> "APPROVED", category |-> "cex"]>> \o reviews
  /\ call' = Changed(r)
  /\ UNCHANGED <<others, query, complaints, impl, limit, category, hist, again>>

\* another request removes a review
DeleteReview(r) ==
  /\ InFlight(call[r]) /\ call[r].changes < MaxChanges
  /\ \E i \in 1..Len(reviews) :
       reviews' = SubSeq(reviews, 1, i - 1) \o SubSeq(reviews, i + 1, Len(reviews))
  /\ call' = Changed(r)
  /\ UNCHANGED <<others, query, complaints, impl, limit, category, hist, again>>

InsertComplaint(r) ==
  /\ InFlight(call[r]) /\ call[r].changes < MaxChanges
  /\ complaints' = <<[id |-> FreshId(complaints, call[r], "complaint"), createdAt |-> Now,
                      category |-> "cex"]>> \o complaints
  /\ call' = Changed(r)
  /\ UNCHANGED <<others, query, reviews, impl, limit, category, hist, again>>

DeleteComplaint(r) ==
  /\ InFlight(call[r]) /\ call[r].changes < MaxChanges
  /\ \E i \in 1..Len(complaints) :
       complaints' = SubSeq(complaints, 1, i - 1) \o SubSeq(complaints, i + 1, Len(complaints))
  /\ call' = Changed(r)
  /\ UNCHANGED <<others, query, reviews, impl, limit, category, hist, again>>

InitChurn ==
  /\ InitPlainTables(MaxSmallRows)
  /\ impl = "chunk"
  /\ limit \in 1..MaxLimit
  /\ category \in CategoryArgs
  /\ OthersIdle
  /\ call = [r \in Clients |-> IdleCall]
  /\ hist = [r \in Clients |-> <<>>]
  /\ again = [r \in Clients |-> None]
  /\ query = [r \in Clients |-> None]

NextChurn ==
  \E r \in Clients :
    \/ Request(r)
    \/ CountRows(r)
    \/ FetchReviews(r)
    \/ FetchComplaints(r)
    \/ LoopExit(r)
    \/ RefillReviews(r)
    \/ RefillComplaints(r)
    \/ SelectNext(r)
    \/ InsertReview(r)
    \/ DeleteReview(r)
    \/ InsertComplaint(r)
    \/ DeleteComplaint(r)

SpecChurn == InitChurn /\ [][NextChurn]_vars

\* ---- two requests at once ---------------------------------------------------
\* two HTTP requests served by the one FeedService instance
Callers == {"c1", "c2"}

InitBoth ==
  /\ InitPlainTables(MaxSmallRows)
  /\ impl \in Impls
  /\ limit \in 1..MaxLimit
  /\ category = ""
  /\ OthersIdle
  /\ call = [r \in Callers |-> IdleCall]
  /\ hist = [r \in Callers |-> <<>>]
  /\ again = [r \in Callers |-> None]
  /\ query = [r \in Callers |-> None]

\* the calls interleave at every await
NextBoth ==
  \E r \in Callers :
    \/ Request(r)
    \/ CountRows(r)
    \/ FetchReviews(r)
    \/ FetchComplaints(r)
    \/ LoopExit(r)
    \/ RefillReviews(r)
    \/ RefillComplaints(r)
    \/ SelectNext(r)
    \/ SliceGetFeed(r)

SpecBoth == InitBoth /\ [][NextBoth]_vars

\* ---- getFeed called directly, with any arguments ---------------------------
\* a caller that bypasses the controller: page and limit may be 0
DirectCall(r) ==
  /\ call[r].pc = "idle"
  /\ \E p \in 0..MaxPage : call' = [call EXCEPT ![r] = FreshCall(r, p)]
  /\ UNCHANGED <<others, query, reviews, complaints, impl, limit, category, hist, again>>

InitDirect ==
  /\ TablesUpTo(MaxSmallRows)
  /\ impl \in Impls
  /\ limit \in 0..MaxLimit
  /\ category \in CategoryArgs
  /\ OthersIdle
  /\ call = [r \in Clients |-> IdleCall]
  /\ hist = [r \in Clients |-> <<>>]
  /\ again = [r \in Clients |-> None]
  /\ query = [r \in Clients |-> None]

NextDirect ==
  \E r \in Clients :
    \/ DirectCall(r)
    \/ CountRows(r)
    \/ FetchReviews(r)
    \/ FetchComplaints(r)
    \/ LoopExit(r)
    \/ RefillReviews(r)
    \/ RefillComplaints(r)
    \/ SelectNext(r)
    \/ SliceGetFeed(r)

SpecDirect == InitDirect /\ [][NextDirect]_vars

\* ---- FeedController.getFeed ------------------------------------------------
FEED_LIMIT_MAX == 50

MaxText == 2     \* the runs of a raw query string
LongRun == 400   \* the length of a long run of one digit

\* every decimal integer of more than MaxDigits digits is beyond the largest
\* double (about 1.8e308) and converts to Infinity
MaxDigits == 309

Digits == <<"0", "1", "2", "3", "4", "5", "6", "7", "8", "9">>

DigitValue(ch) == CHOOSE d \in 0..9 : Digits[d + 1] = ch

IsDigit(ch) == \E d \in 0..9 : Digits[d + 1] = ch

\* a raw string is a sequence of runs: the character ch repeated n times
Run(ch, n) == [ch |-> ch, n |-> n]

Chars == {"0", "7", "-", ".", "x", " "}

Runs ==
  {Run(ch, 1) : ch \in Chars} \cup {Run(ch, LongRun) : ch \in {c \in Chars : IsDigit(c)}}

Texts == UNION {[1..k -> Runs] : k \in 0..MaxText}

\* a query parameter is missing (<<>>) or present with a text (<<t>>)
RawValues == {<<>>} \cup {<<t>> : t \in Texts}

\* JavaScript numbers: an integer, NaN, Infinity or -Infinity
JsInt(v) == [kind |-> "int", v |-> v]

JsNaN == [kind |-> "NaN", v |-> 0]

JsInfinity == [kind |-> "Infinity", v |-> 0]

JsNegInfinity == [kind |-> "-Infinity", v |-> 0]

RECURSIVE TrimStart(_)
TrimStart(t) ==
  IF t # <<>> /\ Head(t).ch = " " THEN TrimStart(Tail(t)) ELSE t

\* the text after one leading sign character
AfterSign(t) ==
  IF t # <<>> /\ Head(t).ch \in {"-", "+"}
    THEN IF Head(t).n = 1 THEN Tail(t)
         ELSE <<Run(Head(t).ch, Head(t).n - 1)>> \o Tail(t)
    ELSE t

RECURSIVE DigitPrefix(_)
DigitPrefix(t) ==
  IF t # <<>> /\ IsDigit(Head(t).ch) THEN <<Head(t)>> \o DigitPrefix(Tail(t)) ELSE <<>>

RECURSIVE StripZeros(_)
StripZeros(t) ==
  IF t # <<>> /\ Head(t).ch = "0" THEN StripZeros(Tail(t)) ELSE t

RECURSIVE DigitCount(_)
DigitCount(t) == IF t = <<>> THEN 0 ELSE Head(t).n + DigitCount(Tail(t))

RECURSIVE DecimalValue(_, _)
DecimalValue(t, acc) ==
  IF t = <<>> THEN acc
  ELSE LET rest == IF Head(t).n = 1 THEN Tail(t)
                   ELSE <<Run(Head(t).ch, Head(t).n - 1)>> \o Tail(t)
       IN DecimalValue(rest, acc * 10 + DigitValue(Head(t).ch))

\* parseInt(text, 10): leading white space is skipped, one sign is read, then
\* the longest run of decimal digits; no digit gives NaN; the result is the
\* double nearest to the value read, which is Infinity for a value too large
ParseInt(text) ==
  LET s == TrimStart(text)
      negative == s # <<>> /\ Head(s).ch = "-"
      ds == DigitPrefix(AfterSign(s))
      sig == StripZeros(ds)
  IN IF ds = <<>> THEN JsNaN
     ELSE IF DigitCount(sig) > MaxDigits
       THEN IF negative THEN JsNegInfinity ELSE JsInfinity
     ELSE JsInt(IF negative THEN 0 - DecimalValue(sig, 0) ELSE DecimalValue(sig, 0))

\* x || d: NaN and 0 are falsy
OrDefault(x, d) ==
  IF x.kind = "NaN" \/ (x.kind = "int" /\ x.v = 0) THEN JsInt(d) ELSE x

\* Math.max(a, x) for an integer a
MathMax(a, x) ==
  IF x.kind = "int" THEN JsInt(IF x.v > a THEN x.v ELSE a)
  ELSE IF x.kind = "-Infinity" THEN JsInt(a)
  ELSE x

\* Math.min(a, x) for an integer a
MathMin(a, x) ==
  IF x.kind = "int" THEN JsInt(Min(a, x.v))
  ELSE IF x.kind = "Infinity" THEN JsInt(a)
  ELSE x

\* @Query('page') page = '1'
DefaultPage == <<Run("1", 1)>>

\* @Query('limit') limit = '20'
DefaultLimit == <<Run("2", 1), Run("0", 1)>>

Param(raw, default) == IF raw = <<>> THEN default ELSE raw[1]

SafePage(raw) == MathMax(1, OrDefault(ParseInt(Param(raw, DefaultPage)), 1))

SafeLimit(raw) ==
  MathMin(FEED_LIMIT_MAX, MathMax(1, OrDefault(ParseInt(Param(raw, DefaultLimit)), 20)))

\* GET /api/feed: the controller parses and clamps page and limit and calls
\* feedService.getFeed(safePage, safeLimit, category); the arguments are kept
\* as JavaScript numbers
ControllerGetFeed(r) ==
  /\ call[r].pc = "idle"
  /\ query[r] # None
  /\ call' = [call EXCEPT ![r] =
                [IdleCall EXCEPT !.pc = "count",
                                 !.page = SafePage(query[r][1].page),
                                 !.limit = SafeLimit(query[r][1].limit),
                                 !.category = category]]
  /\ UNCHANGED <<others, query, reviews, complaints, impl, limit, category, hist, again>>

InitClamp ==
  /\ reviews = <<>>
  /\ complaints = <<>>
  /\ impl \in Impls
  /\ limit = 1
  /\ category = ""
  /\ OthersIdle
  /\ call = [r \in Clients |-> IdleCall]
  /\ hist = [r \in Clients |-> <<>>]
  /\ again = [r \in Clients |-> None]
  /\ \E p \in RawValues, l \in RawValues :
       query = [r \in Clients |-> <<[page |-> p, limit |-> l]>>]

NextClamp == \E r \in Clients : ControllerGetFeed(r)

SpecClamp == InitClamp /\ [][NextClamp]_vars

\* ---- votes on a review and on a complaint ----------------------------------
feed == <<reviews, complaints, impl, limit, category, call, hist, again, query>>

\* the feed is not in use
FeedIdle ==
  /\ reviews = <<>>
  /\ complaints = <<>>
  /\ impl = "slice"
  /\ limit = 1
  /\ category = ""
  /\ call = [r \in Clients |-> IdleCall]
  /\ hist = [r \in Clients |-> <<>>]
  /\ again = [r \in Clients |-> None]
  /\ query = [r \in Clients |-> None]

Users == {"u1", "u2"}

\* the voteType of the request body; "MAYBE" stands for any invalid value
VoteArgs == {"UP", "DOWN", "MAYBE"}

\* the voteType of a helpfulVote row created without one
DefaultVoteType == "UP"

\* findUnique({ where: { userId_<target>Id } }): <<row>> or <<>>
FindVote(rows, u) ==
  IF \E row \in rows : row.userId = u
    THEN <<CHOOSE row \in rows : row.userId = u>>
    ELSE <<>>

\* the id of a created row
FreshRowId(rows) ==
  CHOOSE n \in 1..(Cardinality(rows) + 1) : \A row \in rows : row.id # n

\* count({ where: { voteType } })
CountVotes(rows, t) == Cardinality({row \in rows : row.voteType = t})

\* the last two finished calls, each with the counters and the caller's vote
\* as they were when it started
Finished(v, k, op, u, t, returned) ==
  LET e == [kind |-> k, op |-> op, userId |-> u, voteType |-> t,
            before |-> v.counts[k],
            had |-> IF FindVote(v.rows[k], u) = <<>> THEN "none"
                    ELSE FindVote(v.rows[k], u)[1].voteType,
            returned |-> returned]
      all == Append(v.recent, e)
  IN IF Len(all) > 2 THEN Tail(all) ELSE all

\* vote(targetId, voteType, userId) of ReviewsService and ComplaintsService,
\* run to completion: validation, then the transaction that deletes, updates
\* or creates the caller's row, counts the rows and stores both counts
Vote(v, k, u, t) ==
  LET rows == v.rows[k]
      existing == FindVote(rows, u)
      written ==
        IF existing # <<>>
          THEN IF existing[1].voteType = t
                 THEN rows \ {existing[1]}
                 ELSE (rows \ {existing[1]}) \cup {[existing[1] EXCEPT !.voteType = t]}
          ELSE rows \cup {[id |-> FreshRowId(rows), userId |-> u, voteType |-> t]}
      nextVoteType == IF existing # <<>> /\ existing[1].voteType = t THEN "null" ELSE t
  IN IF t \notin {"UP", "DOWN"}
       THEN [v EXCEPT !.recent = Finished(v, k, "vote", u, t, "error")]
       ELSE [v EXCEPT !.rows[k] = written,
                      !.counts[k] = [helpfulCount |-> CountVotes(written, "UP"),
                                     downVoteCount |-> CountVotes(written, "DOWN")],
                      !.recent = Finished(v, k, "vote", u, t, nextVoteType)]

ReviewsVote(u, t) ==
  /\ voting' = Vote(voting, "review", u, t)
  /\ UNCHANGED <<feed, auth, replying, store, gate>>

ComplaintsVote(u, t) ==
  /\ voting' = Vote(voting, "complaint", u, t)
  /\ UNCHANGED <<feed, auth, replying, store, gate>>

\* ReviewsService.helpful(reviewId, userId), run to completion: an existing row
\* of the caller is deleted and helpfulCount decremented, otherwise a row is
\* created and helpfulCount incremented
ReviewsHelpful(u) ==
  LET rows == voting.rows["review"]
      existing == FindVote(rows, u)
  IN /\ voting' =
          IF existing # <<>>
            THEN [voting EXCEPT !.rows["review"] = rows \ {existing[1]},
                                !.counts["review"].helpfulCount = @ - 1,
                                !.recent = Finished(voting, "review", "helpful", u,
                                                    DefaultVoteType, "false")]
            ELSE [voting EXCEPT !.rows["review"] =
                                  rows \cup {[id |-> FreshRowId(rows), userId |-> u,
                                              voteType |-> DefaultVoteType]},
                                !.counts["review"].helpfulCount = @ + 1,
                                !.recent = Finished(voting, "review", "helpful", u,
                                                    DefaultVoteType, "true")]
     /\ UNCHANGED <<feed, auth, replying, store, gate>>

InitVotes == FeedIdle /\ OthersIdle

NextVotes ==
  \E u \in Users :
    \/ ReviewsHelpful(u)
    \/ \E t \in VoteArgs : ReviewsVote(u, t)
    \/ \E t \in VoteArgs : ComplaintsVote(u, t)

SpecVotes == InitVotes /\ [][NextVotes]_vars

\* ---- two votes on a comment at once ----------------------------------------

IdleVote == [pc |-> "idle", userId |-> "", voteType |-> "", existing |-> <<>>,
             helpfulCount |-> 0, downVoteCount |-> 0, result |-> None]

CommentRows == voting.rows["comment"]

\* the id of a created commentVote row: ids are never used twice
NewVoteId ==
  LET used == {row.id : row \in CommentRows}
                \cup {voting.calls[q].existing[1].id :
                        q \in {x \in Requests : voting.calls[x].existing # <<>>}}
  IN CHOOSE n \in 1..(Cardinality(used) + 1) : n \notin used

\* the request of q arrives; an invalid voteType is rejected at once; the
\* comment exists
StartVote(q) ==
  /\ voting.calls[q].pc = "idle"
  /\ \E u \in Users, t \in VoteArgs :
       voting' = [voting EXCEPT !.calls[q] =
                    [IdleVote EXCEPT !.pc = IF t \in {"UP", "DOWN"} THEN "find" ELSE "failed",
                                     !.userId = u, !.voteType = t]]
  /\ UNCHANGED <<feed, auth, replying, store, gate>>

\* const existingVote = await this.prisma.commentVote.findUnique(...)
FindExisting(q) ==
  LET c == voting.calls[q]
  IN /\ c.pc = "find"
     /\ voting' = [voting EXCEPT !.calls[q] =
                     [c EXCEPT !.pc = "write", !.existing = FindVote(CommentRows, c.userId)]]
     /\ UNCHANGED <<feed, auth, replying, store, gate>>

\* the row of existingVote.id as it is now, <<>> when it is gone
RowNow(c) ==
  IF \E row \in CommentRows : row.id = c.existing[1].id
    THEN <<CHOOSE row \in CommentRows : row.id = c.existing[1].id>>
    ELSE <<>>

\* commentVote.delete / update where id = existingVote.id, or create; delete and
\* update reject when the row is gone, create rejects when the user has a row
\* on the comment (the unique userId_commentId)
WriteVote(q) ==
  LET c == voting.calls[q]
      failed == [voting EXCEPT !.calls[q] = [c EXCEPT !.pc = "failed"]]
      written(rows) == [voting EXCEPT !.rows["comment"] = rows,
                                      !.calls[q] = [c EXCEPT !.pc = "count"]]
  IN /\ c.pc = "write"
     /\ voting' =
          IF c.existing # <<>>
            THEN IF RowNow(c) = <<>> THEN failed
                 ELSE IF c.existing[1].voteType = c.voteType
                   THEN written(CommentRows \ {RowNow(c)[1]})
                   ELSE written((CommentRows \ {RowNow(c)[1]})
                                  \cup {[RowNow(c)[1] EXCEPT !.voteType = c.voteType]})
            ELSE IF FindVote(CommentRows, c.userId) # <<>> THEN failed
                 ELSE written(CommentRows \cup {[id |-> NewVoteId, userId |-> c.userId,
                                                 voteType |-> c.voteType]})
     /\ UNCHANGED <<feed, auth, replying, store, gate>>

\* the change of (helpfulCount, downVoteCount) of comment.update in the branch
\* the call took
Delta(c) ==
  LET up == IF c.voteType = "UP" THEN 1 ELSE 0
      down == 1 - up
  IN IF c.existing = <<>> THEN <<up, down>>
     ELSE IF c.existing[1].voteType = c.voteType THEN <<0 - up, 0 - down>>
     ELSE <<up - down, down - up>>

\* comment.update({ data: { increment / decrement } }), atomic in the store
Adjusted(counts, c) ==
  [helpfulCount |-> counts.helpfulCount + Delta(c)[1],
   downVoteCount |-> counts.downVoteCount + Delta(c)[2]]

UpdateCounters(q) ==
  LET c == voting.calls[q]
      counts == Adjusted(voting.counts["comment"], c)
  IN /\ c.pc = "count"
     /\ voting' = [voting EXCEPT !.counts["comment"] = counts,
                                 !.calls[q] = [c EXCEPT !.pc = "read",
                                                        !.helpfulCount = counts.helpfulCount,
                                                        !.downVoteCount = counts.downVoteCount]]
     /\ UNCHANGED <<feed, auth, replying, store, gate>>

\* const currentVote = await ...findUnique(...); return { voteType, counts }
ReadBack(q) ==
  LET c == voting.calls[q]
      current == FindVote(CommentRows, c.userId)
  IN /\ c.pc = "read"
     /\ voting' = [voting EXCEPT !.calls[q] =
                     [c EXCEPT !.pc = "done",
                               !.result = <<[voteType |-> IF current = <<>> THEN "null"
                                                          ELSE current[1].voteType,
                                             helpfulCount |-> c.helpfulCount,
                                             downVoteCount |-> c.downVoteCount]>>]]
     /\ UNCHANGED <<feed, auth, replying, store, gate>>

\* a comment on which each user has an UP vote, a DOWN vote or none, with
\* counters that agree, and two requests about to arrive
InitRace ==
  /\ FeedIdle
  /\ auth = AuthIdle /\ replying = ReplyingIdle /\ store = StoreIdle /\ gate = GateIdle
  /\ \E held \in [Users -> {"none", "UP", "DOWN"}] :
       LET rows == {[id |-> IF u = "u1" THEN 1 ELSE 2, userId |-> u, voteType |-> held[u]] :
                      u \in {x \in Users : held[x] # "none"}}
       IN voting = [VotingIdle EXCEPT
                      !.rows["comment"] = rows,
                      !.counts["comment"] = [helpfulCount |-> CountVotes(rows, "UP"),
                                             downVoteCount |-> CountVotes(rows, "DOWN")],
                      !.calls = [q \in Requests |-> IdleVote]]

NextRace ==
  \E q \in Requests :
    \/ StartVote(q)
    \/ FindExisting(q)
    \/ WriteVote(q)
    \/ UpdateCounters(q)
    \/ ReadBack(q)

SpecRace == InitRace /\ [][NextRace]_vars

\* ---- sessions ----------------------------------------------------------------
MaxClock == 2       \* the clock runs from 0 to MaxClock
SessionTicks == 1   \* the seven days a session and its token last, in clock ticks

\* jwt.sign({ userId }, secret, { expiresIn: '7d' }): the token is determined
\* by the user, the issue time and the secret
Sign(u, at, secret) == [userId |-> u, iat |-> at, exp |-> at + SessionTicks, secret |-> secret]

\* the tokens a request may present: signed by the server at some time, or
\* signed with another secret
Tokens ==
  {Sign(u, at, "jwtSecret") : u \in Users, at \in 0..MaxClock}
    \cup {Sign(u, 0, "other") : u \in Users}

\* jwt.verify(token, secret): throws on a wrong signature and on an expired token
Verified(token) == token.secret = "jwtSecret" /\ auth.now < token.exp

\* prisma.session.findUnique({ where: { token } }): <<row>> or <<>>
FindSession(token) ==
  IF \E row \in auth.rows : row.token = token
    THEN <<CHOOSE row \in auth.rows : row.token = token>>
    ELSE <<>>

\* getSessionFromToken(token): the user of the session, or null
GetSessionFromToken(token) ==
  IF token = None THEN "null"
  ELSE IF ~Verified(token) THEN "null"
  ELSE IF FindSession(token) = <<>> \/ FindSession(token)[1].expiresAt < auth.now THEN "null"
  ELSE FindSession(token)[1].userId

\* the decision of a guard on a request that presents token, with what held
\* of the token when it was taken
Decision(guard, token, outcome) ==
  [guard |-> guard, token |-> token, outcome |-> outcome,
   hadRow |-> token # None /\ \E row \in auth.rows : row.token = token,
   inTime |-> token # None /\ \A row \in auth.rows :
                                row.token = token => row.expiresAt >= auth.now,
   afterLogout |-> token \in auth.loggedOut]

\* login or register: createSession(userId); session.create rejects a token
\* that a row holds already (token is the unique key of findUnique)
Login(u) ==
  LET token == Sign(u, auth.now, "jwtSecret")
  IN /\ FindSession(token) = <<>>
     /\ auth' = [auth EXCEPT !.rows = @ \cup {[userId |-> u, token |-> token,
                                               expiresAt |-> auth.now + SessionTicks]}]
     /\ UNCHANGED <<feed, voting, replying, store, gate>>

\* POST logout: deleteSession(token) when the request carries a token
Logout(token) ==
  /\ FindSession(token) # <<>>
  /\ auth' = [auth EXCEPT !.rows = {row \in @ : row.token # token},
                          !.loggedOut = @ \cup {token}]
  /\ UNCHANGED <<feed, voting, replying, store, gate>>

\* AuthGuard.canActivate: the user is attached, or Unauthorized is thrown
AuthGuardRequest(token) ==
  LET user == GetSessionFromToken(token)
  IN /\ auth' = [auth EXCEPT !.last =
                   <<Decision("AuthGuard", token,
                              IF user = "null" THEN "Unauthorized" ELSE user)>>]
     /\ UNCHANGED <<feed, voting, replying, store, gate>>

\* OptionalAuthGuard.canActivate: request.user = user ?? null, always admitted
OptionalAuthRequest(token) ==
  /\ auth' = [auth EXCEPT !.last =
                <<Decision("OptionalAuthGuard", token, GetSessionFromToken(token))>>]
  /\ UNCHANGED <<feed, voting, replying, store, gate>>

Tick ==
  /\ auth.now < MaxClock
  /\ auth' = [auth EXCEPT !.now = @ + 1]
  /\ UNCHANGED <<feed, voting, replying, store, gate>>

InitAuth == FeedIdle /\ OthersIdle

NextAuth ==
  \/ \E u \in Users : Login(u)
  \/ \E token \in Tokens : Logout(token)
  \/ \E token \in Tokens \cup {None} : AuthGuardRequest(token)
  \/ \E token \in Tokens \cup {None} : OptionalAuthRequest(token)
  \/ Tick

SpecAuth == InitAuth /\ [][NextAuth]_vars

\* ---- complaint replies -------------------------------------------------------
ComplaintStatuses == {"OPEN", "IN_PROGRESS", "RESOLVED", "CLOSED"}
ComplaintIds == {"c1", "c2", "c9"}    \* c9 is never created
CompanyIds == {"null", "co1", "co2"}  \* "null": the complaint names no company
besides == <<feed, voting, auth, store, gate>>

Exists(id) == \E c \in replying.complaints : c.id = id
Complaint(id) == CHOOSE c \in replying.complaints : c.id = id
StatusOf(id) == Complaint(id).status

\* a database that holds complaint c1 in any status, and company co1
InitReplies ==
  /\ FeedIdle
  /\ voting = VotingIdle /\ auth = AuthIdle /\ store = StoreIdle /\ gate = GateIdle
  /\ \E st \in ComplaintStatuses, co \in CompanyIds :
       replying = [ReplyingIdle EXCEPT
                     !.complaints = {[id |-> "c1", status |-> st, companyId |-> co]},
                     !.companies = {"co1"}]

\* ComplaintsService.create: the row is written with status OPEN
CreateComplaint(co) ==
  /\ ~Exists("c2")
  /\ replying' = [replying EXCEPT
                    !.complaints = @ \cup {[id |-> "c2", status |-> "OPEN", companyId |-> co]}]
  /\ UNCHANGED besides

Fail(q) == [replying EXCEPT !.calls[q].pc = "failed"]

\* reply, up to the first await: createReplySchema.parse accepts the content
\* or throws, then the complaint is read; NotFound when it is missing and
\* BadRequest when it names no company
FindComplaint(q, id, accepted) ==
  /\ replying.calls[q].pc = "idle"
  /\ replying' =
       IF ~accepted \/ ~Exists(id) \/ Complaint(id).companyId = "null"
         THEN [replying EXCEPT !.calls[q] = [@ EXCEPT !.pc = "failed", !.id = id]]
         ELSE [replying EXCEPT !.calls[q] =
                 [@ EXCEPT !.pc = "company", !.id = id,
                           !.status = StatusOf(id),
                           !.companyId = Complaint(id).companyId]]
  /\ UNCHANGED besides

\* company.findUnique: BadRequest when the company row is missing
FindCompany(q) ==
  /\ replying.calls[q].pc = "company"
  /\ replying' =
       IF replying.calls[q].companyId \in replying.companies
         THEN [replying EXCEPT !.calls[q].pc = "create"]
         ELSE Fail(q)
  /\ UNCHANGED besides

\* complaintReply.create
CreateReply(q) ==
  LET c == replying.calls[q]
  IN /\ c.pc = "create"
     /\ replying' = [replying EXCEPT
                       !.replies = @ \cup {[by |-> q, complaintId |-> c.id,
                                            companyId |-> c.companyId]},
                       !.calls[q].pc = "update"]
     /\ UNCHANGED besides

\* if (complaint.status === 'OPEN'), on the status read at the start
MarksInProgressAlways(status) == TRUE

MarksInProgress(status) == status = "OPEN"

\* the conditional complaint.update, then return reply
UpdateStatus(q) ==
  LET c == replying.calls[q]
  IN /\ c.pc = "update"
     /\ replying' =
          IF MarksInProgress(c.status)
            THEN [replying EXCEPT
                    !.complaints = {IF x.id = c.id THEN [x EXCEPT !.status = "IN_PROGRESS"]
                                    ELSE x : x \in @},
                    !.calls[q] = [@ EXCEPT !.pc = "done", !.wrote = TRUE]]
            ELSE [replying EXCEPT !.calls[q].pc = "done"]
     /\ UNCHANGED besides

NextReplies ==
  \/ \E co \in CompanyIds : CreateComplaint(co)
  \/ \E q \in Requests, id \in ComplaintIds, accepted \in BOOLEAN : FindComplaint(q, id, accepted)
  \/ \E q \in Requests : FindCompany(q)
  \/ \E q \in Requests : CreateReply(q)
  \/ \E q \in Requests : UpdateStatus(q)

SpecReplies == InitReplies /\ [][NextReplies]_vars

\* ---- the legacy store's write lock ------------------------------------------
MaxCalls == 3   \* updateStore calls in one run

Names == {"ann", "bob"}

\* the updaters of legacy register (throws on a duplicate user) and of
\* legacy login (pushes a session, never throws)
Updaters ==
  {[kind |-> "register", name |-> n] : n \in Names} \cup {[kind |-> "login", name |-> ""]}

apart == <<feed, voting, auth, replying, gate>>

\* the state of the promise a link of the chain stands for
Settled(link) == link.state \in {"fulfilled", "rejected"}

\* updateStore(updater): this.writeLock = this.writeLock.then(callback)
UpdateStore(updater) ==
  /\ Len(store.links) < MaxCalls
  /\ store' = [store EXCEPT !.links =
                 Append(@, [updater |-> updater, state |-> "pending", ran |-> FALSE])]
  /\ UNCHANGED apart

\* the state of the promise under link k's then()
Before(k) == IF k = 1 THEN "fulfilled" ELSE store.links[k - 1].state

\* then(callback) on a promise that rejected: the callback is skipped and the
\* new promise rejects with the same reason
PassesRejection(before) == before = "rejected"

\* the promise under link k settled: its callback starts with loadStore, or
\* the rejection passes through
Settle(k) ==
  /\ k \in 1..Len(store.links)
  /\ store.links[k].state = "pending"
  /\ Before(k) \in {"fulfilled", "rejected"}
  /\ store' = IF PassesRejection(Before(k))
                THEN [store EXCEPT !.links[k].state = "rejected"]
                ELSE [store EXCEPT !.links[k].state = "loaded"]
  /\ UNCHANGED apart

\* register's updater throws when the user exists
Throws(updater, data) == updater.kind = "register" /\ updater.name \in data.users

Applied(updater, data) ==
  IF updater.kind = "register"
    THEN [users |-> data.users \cup {updater.name}, sessions |-> data.sessions + 1]
    ELSE [data EXCEPT !.sessions = @ + 1]

\* await updater(data): data is the cached object, changed in place
RunUpdater(k) ==
  /\ k \in 1..Len(store.links)
  /\ store.links[k].state = "loaded"
  /\ store' = IF Throws(store.links[k].updater, store.cache)
                THEN [store EXCEPT !.links[k] = [@ EXCEPT !.state = "rejected", !.ran = TRUE]]
                ELSE [store EXCEPT !.links[k] = [@ EXCEPT !.state = "updated", !.ran = TRUE],
                                   !.cache = Applied(store.links[k].updater, @)]
  /\ UNCHANGED apart

\* await this.persist(data)
Persist(k) ==
  /\ k \in 1..Len(store.links)
  /\ store.links[k].state = "updated"
  /\ store' = [store EXCEPT !.links[k].state = "fulfilled", !.disk = store.cache]
  /\ UNCHANGED apart

InitStore == FeedIdle /\ OthersIdle

NextStore ==
  \/ \E updater \in Updaters : UpdateStore(updater)
  \/ \E k \in 1..MaxCalls : Settle(k)
  \/ \E k \in 1..MaxCalls : RunUpdater(k)
  \/ \E k \in 1..MaxCalls : Persist(k)

SpecStore == InitStore /\ [][NextStore]_vars

\* ---- the CSRF middleware -----------------------------------------------------
MaxParts == 2   \* the cookies of one Cookie header

aside == <<feed, voting, auth, replying, store>>

Methods == {"GET", "HEAD", "OPTIONS", "POST", "PUT", "PATCH", "DELETE"}

\* an origin: scheme, host and port, the port "" when it is the scheme's default
Origin(scheme, host, port) == [scheme |-> scheme, host |-> host, port |-> port]

\* allowedOrigins when CORS_ORIGIN is empty
AllowedOrigins == {Origin("http", "localhost", "3000"), Origin("http", "127.0.0.1", "3000")}

unsafeMethods == {"POST", "PUT", "PATCH", "DELETE"}

\* the Origin headers a request may carry; None: no Origin header
OriginHeaders == {None, Origin("http", "localhost", "3000"), Origin("http", "evil.example", "")}

\* the Referer headers a request may carry: None, a text that is no URL, or a URL
Referers ==
  {None, [url |-> FALSE]}
    \cup {[url |-> TRUE, scheme |-> "http", host |-> h, port |-> pt, path |-> "/page"] :
            h \in {"localhost", "evil.example"}, pt \in {"3000", "80"}}

\* one cookie of a Cookie header, as the text "<lead><key><gap>=<value>":
\* lead is the white space after the preceding ';', gap the white space
\* between the name and '='
Cookies ==
  [lead : {"", " "}, key : {"session", "theme"}, gap : {"", " "}, value : {"tok"}]

\* the Cookie headers: up to MaxParts cookies joined by ';'; the header value
\* itself has no leading white space
CookieHeaders ==
  {h \in UNION {[1..n -> Cookies] : n \in 0..MaxParts} : h = <<>> \/ h[1].lead = ""}

HttpRequests ==
  [method : Methods, cookie : CookieHeaders, origin : OriginHeaders, referer : Referers]

\* /(?:^|;\s*)session=/.test(cookieHeader)
HasSessionCookie(cookieHeader) ==
  \E i \in 1..Len(cookieHeader) :
    cookieHeader[i].key = "session" /\ cookieHeader[i].gap = ""

\* parseCookieHeader(cookieHeader).session: each part is trimmed, split at
\* its first '=', and its name trimmed again; a later cookie of the same
\* name replaces an earlier one. <<value>>, or <<>> without such a cookie
ParseCookieHeader(cookieHeader, name) ==
  LET found == {i \in 1..Len(cookieHeader) : cookieHeader[i].key = name}
  IN IF found = {} THEN <<>>
     ELSE <<cookieHeader[CHOOSE i \in found : \A j \in found : j <= i].value>>

\* getSessionTokenFromRequest, on a request whose cookies were not parsed
\* before it
GetSessionTokenFromRequest(request) == ParseCookieHeader(request.cookie, "session")

\* new URL(refererHeader).origin: the default port of the scheme is dropped
UrlOrigin(referer) ==
  Origin(referer.scheme, referer.host,
         IF referer.scheme = "http" /\ referer.port = "80" THEN "" ELSE referer.port)

\* requestOrigin: the Origin header, else the origin of the Referer, else
\* undefined
RequestOrigin(request) ==
  IF request.origin # None THEN request.origin
  ELSE IF request.referer # None /\ request.referer.url THEN UrlOrigin(request.referer)
  ELSE None

\* the middleware: "next" or the 403 answer
CsrfMiddleware(request) ==
  IF request.method \notin unsafeMethods THEN "next"
  ELSE IF ~HasSessionCookie(request.cookie) THEN "next"
  ELSE IF RequestOrigin(request) = None \/ RequestOrigin(request) \notin AllowedOrigins THEN "403"
  ELSE "next"

\* a request has come in
InitGate ==
  /\ FeedIdle
  /\ voting = VotingIdle /\ auth = AuthIdle /\ replying = ReplyingIdle /\ store = StoreIdle
  /\ \E request \in HttpRequests : gate = <<[request |-> request, response |-> "pending"]>>

\* the middleware runs on it
Handle ==
  /\ gate[1].response = "pending"
  /\ gate' = <<[request |-> gate[1].request, response |-> CsrfMiddleware(gate[1].request)]>>
  /\ UNCHANGED aside

NextGate == Handle

SpecGate == InitGate /\ [][NextGate]_vars

\* ---- what the feed is expected to show -----------------------------------
\* the rows of both tables that match the caller's category, as feed items
MatchingItems ==
  Range(Tag(MatchingReviews(category), "review"))
    \cup Range(Tag(MatchingComplaints(category), "complaint"))

TotalMatching == Len(MatchingReviews(category)) + Len(MatchingComplaints(category))

\* ceil(TotalMatching / limit), stated by its defining inequalities
ExpectedTotalPages ==
  CHOOSE n \in 0..TotalMatching :
    n * limit >= TotalMatching /\ (n = 0 \/ (n - 1) * limit < TotalMatching)

\* the items of the pages 1..n the client has received, in page order
Received(r, n) == Flatten([p \in 1..n |-> hist[r][p].items])

Descending(s) == \A i \in 1..(Len(s) - 1) : s[i].createdAt >= s[i + 1].createdAt

NoDuplicates(s) ==
  \A i, j \in 1..Len(s) :
    i # j => ~(s[i].type = s[j].type /\ s[i].id = s[j].id)

\* a call of the client has just returned: hist and again change in no other state
Returned(r) == call[r].pc = "done"

\* the client has walked through every page of the feed
WalkedAll(r) == Returned(r) /\ Len(hist[r]) >= ExpectedTotalPages

EachOnceDescending(r) ==
  LET all == Received(r, ExpectedTotalPages)
  IN /\ Range(all) = MatchingItems
     /\ Len(all) = TotalMatching
     /\ Descending(all)

\* C1: chunk-buffer getFeed, unchanged data: the pages 1..totalPages together
\* hold every matching APPROVED review and every matching complaint exactly
\* once, in descending createdAt order.
C1_ChunkComplete ==
  \A r \in Clients :
    (impl = "chunk" /\ WalkedAll(r)) => EachOnceDescending(r)

\* C2: sort-and-slice getFeed, unchanged data: the pages 1..totalPages together
\* hold every matching APPROVED review and every matching complaint exactly
\* once, in descending createdAt order; taking only page*limit + limit rows of
\* each table drops nothing.
C2_SliceComplete ==
  \A r \in Clients :
    (impl = "slice" /\ WalkedAll(r)) => EachOnceDescending(r)

\* the review table holds more matching rows than the request for page 1 takes
\* from it, and the walk through all pages is complete
C2_Witness ==
  \E r \in Clients :
    /\ impl = "slice"
    /\ WalkedAll(r)
    /\ Len(MatchingReviews(category)) > 2 * limit
    /\ Len(hist[r]) >= 3

\* C3: chunk-buffer getFeed: a call whose merge loop has ended with fewer than
\* page*limit merged items has fetched every matching row of both tables: the
\* loop does not stop at the end of the surviving source's chunk while that
\* source still has unfetched rows.
C3_NoEarlyStop ==
  \A r \in Clients :
    LET c == call[r]
    IN (impl = "chunk" /\ c.pc = "done" /\ c.total > 0
          /\ Len(c.merged) < TargetCount(c))
       => /\ c.reviewSkip >= CountReviews(c.category)
          /\ c.complaintSkip >= CountComplaints(c.category)

\* C4: in both versions every page p holds exactly
\* min(limit, max(0, total - (p-1)*limit)) items.
C4_PageSize ==
  \A r \in Clients : Returned(r) => \A p \in 1..Len(hist[r]) :
    LET rest == TotalMatching - (p - 1) * limit
        want == IF rest <= 0 THEN 0 ELSE IF rest < limit THEN rest ELSE limit
    IN Len(hist[r][p].items) = want

\* C5: in both versions no item (type and id) appears twice within a response
\* or in the responses of two different pages.
C5_NoDuplicates ==
  \A r \in Clients : Returned(r) => NoDuplicates(Received(r, Len(hist[r])))

\* two non-empty pages, with a review and a complaint among their items
C5_Witness ==
  \E r \in Clients :
    /\ impl = "chunk"
    /\ Len(hist[r]) >= 2
    /\ hist[r][1].items # <<>>
    /\ hist[r][2].items # <<>>
    /\ \E x, y \in Range(Received(r, 2)) : x.type = "review" /\ y.type = "complaint"

C7_TieBreak ==
  \A r \in Clients : Returned(r) =>
    \E first \in {"review", "complaint"} :
      \A p \in 1..Len(hist[r]) :
        LET s == hist[r][p].items
        IN \A i, j \in 1..Len(s) :
             (i < j /\ s[i].createdAt = s[j].createdAt)
               => IF s[i].type = s[j].type
                    THEN s[i].id < s[j].id
                    ELSE s[i].type = first

IsScenario ==
  /\ Len(reviews) = 2 /\ Len(complaints) = 1
  /\ reviews[1].createdAt > complaints[1].createdAt
  /\ complaints[1].createdAt > reviews[2].createdAt
  /\ reviews[1].status = "APPROVED" /\ reviews[2].status = "APPROVED"
  /\ limit = 2 /\ category = ""

\* C9: in the worked scenario page 1 is [A, C] with pagination
\* {page 1, limit 2, total 3, totalPages 2} and page 2 is [B], in both versions.
C9_Scenario ==
  \A r \in Clients :
    (IsScenario /\ Returned(r)) =>
      LET A == [type |-> "review", id |-> reviews[1].id, createdAt |-> reviews[1].createdAt]
          B == [type |-> "review", id |-> reviews[2].id, createdAt |-> reviews[2].createdAt]
          C == [type |-> "complaint", id |-> complaints[1].id,
                createdAt |-> complaints[1].createdAt]
      IN /\ Len(hist[r]) >= 1 =>
              /\ hist[r][1].items = <<A, C>>
              /\ hist[r][1].pagination =
                   [page |-> 1, limit |-> 2, total |-> 3, totalPages |-> 2]
         /\ Len(hist[r]) >= 2 => hist[r][2].items = <<B>>

C9_Witness ==
  \E r \in Clients : IsScenario /\ impl = "chunk" /\ Len(hist[r]) >= 2

\* C10: every response echoes page and limit, reports total = matching APPROVED
\* reviews + matching complaints and totalPages = ceil(total / limit).
C10_Envelope ==
  \A r \in Clients : Returned(r) => \A p \in 1..Len(hist[r]) :
    hist[r][p].pagination =
      [page |-> p, limit |-> limit, total |-> TotalMatching,
       totalPages |-> ExpectedTotalPages]

\* a page past the end of a non-empty feed, and a short last page before it
C10_Witness ==
  \E r \in Clients :
    /\ TotalMatching > 0
    /\ TotalMatching % limit # 0
    /\ Len(hist[r]) > ExpectedTotalPages
    /\ hist[r][Len(hist[r])].items = <<>>
    /\ impl = "chunk"

\* ---- the queries of one chunk-buffer request --------------------------------
RECURSIVE RowsFetched(_)
RowsFetched(fs) == IF fs = <<>> THEN 0 ELSE Head(fs).rows + RowsFetched(Tail(fs))

FetchesOf(c, source) == SelectSeq(c.fetches, LAMBDA f : f.source = source)

MergedOf(c, type) == SelectSeq(c.merged, LAMBDA x : x.type = type)

\* C17: chunk-buffer getFeed: after a fetch of a source has returned an empty
\* chunk, that source is not fetched again in the same request.
C17_NoFetchAfterEmpty ==
  \A r \in Clients :
    LET fs == call[r].fetches
    IN \A i, j \in 1..Len(fs) :
         (i < j /\ fs[i].rows = 0) => fs[i].source # fs[j].source

\* C18: chunk-buffer getFeed: every fetch of a source is issued while the
\* buffer of that source is empty, and the rows fetched so far from both
\* sources number at most page*limit + 2*limit.
C18_BoundedFetching ==
  \A r \in Clients :
    LET c == call[r]
    IN /\ \A i \in 1..Len(c.fetches) : c.fetches[i].held = 0
       /\ RowsFetched(c.fetches) <= c.page * c.limit + 2 * c.limit

\* a finished request that fetched more rows than it returned, yet fewer than
\* the tables hold
C18_Witness ==
  \E r \in Clients :
    LET c == call[r]
    IN /\ c.pc = "done" /\ impl = "chunk"
       /\ RowsFetched(c.fetches) > TargetCount(c)
       /\ RowsFetched(c.fetches) < Len(reviews) + Len(complaints)
       /\ Len(c.fetches) > 2

\* C20: chunk-buffer getFeed: at every loop iteration boundary reviewSkip is the
\* number of merged reviews plus the length of reviewBuffer, and complaintSkip
\* likewise; every fetch of a source starts where the previous fetch of that
\* source ended.
C20_CursorInvariant ==
  \A r \in Clients :
    LET c == call[r]
        rf == FetchesOf(c, "review")
        cf == FetchesOf(c, "complaint")
    IN /\ c.pc = "loop" =>
            /\ c.reviewSkip = Len(MergedOf(c, "review")) + Len(c.reviewBuffer)
            /\ c.complaintSkip = Len(MergedOf(c, "complaint")) + Len(c.complaintBuffer)
       /\ \A i \in 1..(Len(rf) - 1) : rf[i + 1].skip = rf[i].skip + rf[i].rows
       /\ \A i \in 1..(Len(cf) - 1) : cf[i + 1].skip = cf[i].skip + cf[i].rows
       /\ rf # <<>> => rf[1].skip = 0
       /\ cf # <<>> => cf[1].skip = 0

\* a request that refilled the review buffer with a short chunk mid-merge
C20_Witness ==
  \E r \in Clients :
    LET c == call[r]
        rf == FetchesOf(c, "review")
    IN /\ c.pc = "loop"
       /\ Len(rf) >= 2
       /\ rf[2].rows > 0 /\ rf[2].rows < c.limit
       /\ c.complaintBuffer # <<>>
       /\ c.merged # <<>>

\* ---- direct calls -----------------------------------------------------------
\* no row of either table passes the filter of category cat
NothingMatches(cat) ==
  /\ \A i \in 1..Len(reviews) :
       ~(reviews[i].status = "APPROVED" /\ (cat = "" \/ reviews[i].category = cat))
  /\ \A i \in 1..Len(complaints) : ~(cat = "" \/ complaints[i].category = cat)

\* C11: when no review and no complaint matches the filter, getFeed returns
\* items = [], total = 0 and totalPages = 0 for every page >= 1 and limit >= 1,
\* in both implementations.
C11_EmptyFeed ==
  \A r \in Clients :
    LET c == call[r]
    IN (Returned(r) /\ c.page >= 1 /\ c.limit >= 1 /\ NothingMatches(c.category)) =>
         c.result = <<Response(<<>>, Pagination(c.page, c.limit, 0, 0))>>

\* a page past the first is asked of tables that hold rows, none of them
\* matching, and the slice version answers
C11_Witness ==
  \E r \in Clients :
    LET c == call[r]
    IN /\ Returned(r) /\ impl = "slice"
       /\ c.page > 1 /\ c.limit >= 1
       /\ reviews # <<>> /\ complaints # <<>>
       /\ NothingMatches(c.category)
       /\ c.result[1].pagination.totalPages = 0

\* C13: getFeed called with page < 1 or limit < 1 returns no response (it
\* fails with an error instead).
C13_InvalidArgument ==
  \A r \in Clients : Returned(r) => (call[r].page >= 1 /\ call[r].limit >= 1)

\* C19: chunk-buffer getFeed: when the two counts sum to 0 the call returns
\* without issuing any findMany.
C19_EmptyShortCircuit ==
  \A r \in Clients :
    LET c == call[r]
    IN (impl = "chunk" /\ c.pc # "idle" /\ NothingMatches(c.category)) =>
         /\ c.fetches = <<>>
         /\ c.pc \in {"count", "done"}

\* the chunk version has answered for tables that hold rows, none matching
C19_Witness ==
  \E r \in Clients :
    LET c == call[r]
    IN /\ impl = "chunk" /\ Returned(r)
       /\ reviews # <<>> /\ complaints # <<>>
       /\ NothingMatches(c.category)
       /\ c.fetches = <<>>
       /\ c.result # None

\* ---- failures ---------------------------------------------------------------
\* C12: when a count query or a row fetch fails, a mid-loop refill included,
\* the whole getFeed call fails: the caller receives no response, and no query
\* is issued after the failed one.
C12_AllOrNothing ==
  \A r \in Clients :
    LET c == call[r]
    IN c.error # None =>
         /\ c.pc = "failed"
         /\ c.result = None
         /\ hist[r] = <<>> /\ again[r] = None
         /\ Len(c.fetches) = c.error[1].after

\* a refill fails in the middle of the merge, after items were merged
C12_Witness ==
  \E r \in Clients :
    LET c == call[r]
    IN /\ c.pc = "failed"
       /\ c.merged # <<>>
       /\ c.error[1].query = "complaint.findMany"
       /\ c.reviewBuffer # <<>>
       /\ c.result = None

\* ---- the controller ----------------------------------------------------------
\* the controller has called the service
Called(r) == call[r].pc = "count" /\ query[r] # None

\* C14: for every raw page and limit query string the controller calls the
\* service with an integer page >= 1 and an integer limit with 1 <= limit <= 50.
C14_CallerClamping ==
  \A r \in Clients :
    Called(r) =>
      /\ call[r].page.kind = "int" /\ call[r].page.v >= 1
      /\ call[r].limit.kind = "int"
      /\ call[r].limit.v >= 1 /\ call[r].limit.v <= FEED_LIMIT_MAX

\* ---- changing data ----------------------------------------------------------
\* C15: chunk-buffer getFeed, with rows inserted and removed between its
\* fetches: the loop body is entered at most page*limit times, and every
\* iteration either breaks or appends exactly one item to merged.
C15_BoundedIterations ==
  \A r \in Clients :
    LET c == call[r]
    IN /\ c.iters <= TargetCount(c)
       /\ Len(c.merged) <= TargetCount(c)
       /\ c.pc = "loop" => c.iters = Len(c.merged)
       /\ c.pc \in {"afterReviews", "afterComplaints"} => c.iters = Len(c.merged) + 1
       /\ c.pc = "done" => c.iters \in {Len(c.merged), Len(c.merged) + 1}

\* a call that ran its full page*limit iterations while the tables changed
\* under it, and merged one row twice
C15_Witness ==
  \E r \in Clients :
    LET c == call[r]
    IN /\ c.pc = "done"
       /\ c.changes = MaxChanges
       /\ c.iters = TargetCount(c)
       /\ \E i, j \in 1..Len(c.merged) : i < j /\ c.merged[i] = c.merged[j]

\* ---- isolation --------------------------------------------------------------
\* the loop of the chunk-buffer version run from start to end without
\* interruption, on the locals c
RECURSIVE RunLoop(_)
RunLoop(c) ==
  IF Len(c.merged) >= TargetCount(c) \/ BothEmpty(c) THEN c
  ELSE LET rb == IF c.reviewBuffer = <<>> THEN FetchReviewChunk(c, c.reviewSkip)
                 ELSE c.reviewBuffer
           rs == IF c.reviewBuffer = <<>> THEN c.reviewSkip + Len(rb) ELSE c.reviewSkip
           cb == IF c.complaintBuffer = <<>> THEN FetchComplaintChunk(c, c.complaintSkip)
                 ELSE c.complaintBuffer
           cs == IF c.complaintBuffer = <<>> THEN c.complaintSkip + Len(cb)
                 ELSE c.complaintSkip
           d == [c EXCEPT !.reviewBuffer = rb, !.reviewSkip = rs,
                          !.complaintBuffer = cb, !.complaintSkip = cs]
       IN IF BothEmpty(d) THEN d
          ELSE IF PickReview(rb, cb)
            THEN RunLoop([d EXCEPT !.merged = Append(@, rb[1]), !.reviewBuffer = Tail(rb)])
            ELSE RunLoop([d EXCEPT !.merged = Append(@, cb[1]), !.complaintBuffer = Tail(cb)])

\* the response getFeed(page, lim, cat) gives when it runs alone
Alone(page, lim, cat) ==
  LET total == CountReviews(cat) + CountComplaints(cat)
      c == [IdleCall EXCEPT !.page = page, !.limit = lim, !.category = cat,
                            !.total = total]
      rb == FetchReviewChunk(c, 0)
      cb == FetchComplaintChunk(c, 0)
      take == SliceTake(page, lim)
      rs == Tag(FindMany(MatchingReviews(cat), 0, take), "review")
      cs == Tag(FindMany(MatchingComplaints(cat), 0, take), "complaint")
  IN IF impl = "slice"
       THEN Response(PageSlice(Sort(rs \o cs), page, lim),
                     Pagination(page, lim, total, Ceil(total, lim)))
     ELSE IF total = 0 THEN Response(<<>>, Pagination(page, lim, 0, 0))
     ELSE ChunkResponse(RunLoop([c EXCEPT !.reviewBuffer = rb, !.reviewSkip = Len(rb),
                                          !.complaintBuffer = cb,
                                          !.complaintSkip = Len(cb)]))

\* C16: getFeed requests that run concurrently, interleaved at every await,
\* each return what the same call returns when it runs alone.
C16_Isolation ==
  \A r \in DOMAIN call :
    LET c == call[r]
    IN c.pc = "done" => c.result = <<Alone(c.page, c.limit, c.category)>>

\* two chunk-buffer calls for different pages, each with a refill behind it,
\* have both answered, and with different responses
C16_Witness ==
  /\ impl = "chunk"
  /\ DOMAIN call = Callers
  /\ \A r \in Callers : call[r].pc = "done" /\ Len(call[r].fetches) > 2
  /\ call["c1"].page # call["c2"].page
  /\ call["c1"].result # call["c2"].result

\* ---- filters ----------------------------------------------------------------
\* row passes the feed's filter for its table under the category argument cat
Passes(type, cat, row) ==
  /\ type = "review" => row.status = "APPROVED"
  /\ cat # "" => row.category = cat

TableOf(type) == IF type = "review" THEN reviews ELSE complaints

\* C21: every returned review is APPROVED, every returned item is of a company
\* of the category asked for when one is given, and total is the number of
\* rows of both tables that pass the same filter.
C21_FilterConsistency ==
  \A r \in Clients :
    LET c == call[r]
    IN Returned(r) =>
         /\ \A x \in Range(c.result[1].items) :
              \E i \in 1..Len(TableOf(x.type)) :
                /\ TableOf(x.type)[i].id = x.id
                /\ Passes(x.type, c.category, TableOf(x.type)[i])
         /\ c.result[1].pagination.total =
              Cardinality({i \in 1..Len(reviews) : Passes("review", c.category, reviews[i])})
              + Cardinality({i \in 1..Len(complaints) :
                               Passes("complaint", c.category, complaints[i])})

\* a category feed that returned a review while the tables also hold a row
\* that fails the filter: a review not approved or a row of another category
C21_Witness ==
  \E r \in Clients :
    LET c == call[r]
    IN /\ Returned(r) /\ c.category = "cex"
       /\ \E x \in Range(c.result[1].items) : x.type = "review"
       /\ \/ \E i \in 1..Len(reviews) : ~Passes("review", "cex", reviews[i])
          \/ \E i \in 1..Len(complaints) : ~Passes("complaint", "cex", complaints[i])
       /\ c.result[1].pagination.total = 1

\* ---- ties -------------------------------------------------------------------
\* the call of r is about to choose between two buffered heads of equal createdAt
AtTie(r) ==
  /\ AtSelect(call[r])
  /\ call[r].reviewBuffer # <<>> /\ call[r].complaintBuffer # <<>>
  /\ call[r].reviewBuffer[1].createdAt = call[r].complaintBuffer[1].createdAt

\* C22: chunk-buffer getFeed: whenever the heads of the two buffers have equal
\* createdAt, the step that selects emits the complaint and keeps the review
\* buffered.
C22_TieDirection ==
  [][\A r \in Clients :
       (AtTie(r) /\ call'[r] # call[r] /\ reviews' = reviews /\ complaints' = complaints) =>
         /\ call'[r].merged = Append(call[r].merged, call[r].complaintBuffer[1])
         /\ call'[r].reviewBuffer = call[r].reviewBuffer]_vars

\* a call whose merged list has a complaint directly followed by a review of
\* the same createdAt
C22_Witness ==
  \E r \in Clients :
    LET m == call[r].merged
    IN /\ impl = "chunk"
       /\ \E i \in 1..(Len(m) - 1) :
            /\ m[i].type = "complaint" /\ m[i + 1].type = "review"
            /\ m[i].createdAt = m[i + 1].createdAt

\* ---- the two versions ---------------------------------------------------------
\* no review has the createdAt of a complaint
NoCrossTie ==
  \A i \in 1..Len(reviews), j \in 1..Len(complaints) :
    reviews[i].createdAt # complaints[j].createdAt

\* the response of the sort-and-slice getFeed(page, lim, cat)
SliceAnswer(page, lim, cat) ==
  LET take == SliceTake(page, lim)
      rs == Tag(FindMany(MatchingReviews(cat), 0, take), "review")
      cs == Tag(FindMany(MatchingComplaints(cat), 0, take), "complaint")
      total == CountReviews(cat) + CountComplaints(cat)
  IN Response(PageSlice(Sort(rs \o cs), page, lim),
              Pagination(page, lim, total, Ceil(total, lim)))

\* C23: on tables where no review has the createdAt of a complaint, the
\* chunk-buffer getFeed returns the response of the sort-and-slice getFeed,
\* for every page, limit and category.
C23_SameResponse ==
  \A r \in Clients :
    LET c == call[r]
    IN (Returned(r) /\ impl = "chunk" /\ NoCrossTie) =>
         c.result[1] = SliceAnswer(c.page, c.limit, c.category)

\* ---- votes -------------------------------------------------------------------
\* the counters stored on the target of kind k agree with its vote rows
CountersAgree(k) ==
  /\ voting.counts[k].helpfulCount = CountVotes(voting.rows[k], "UP")
  /\ voting.counts[k].downVoteCount = CountVotes(voting.rows[k], "DOWN")
  /\ voting.counts[k].helpfulCount >= 0
  /\ voting.counts[k].downVoteCount >= 0

\* C24: after any sequence of completed ReviewsService.vote and
\* ReviewsService.helpful calls, the review's helpfulCount is the number of its
\* UP vote rows, its downVoteCount the number of its DOWN vote rows, and
\* neither is negative.
C24_ReviewCounters == CountersAgree("review")

\* the last two calls were votes of one user on one target with valid types,
\* the first cast by a user who had no vote on the target
TwoVotes ==
  /\ Len(voting.recent) = 2
  /\ voting.recent[1].op = "vote" /\ voting.recent[2].op = "vote"
  /\ voting.recent[1].kind = voting.recent[2].kind
  /\ voting.recent[1].userId = voting.recent[2].userId
  /\ voting.recent[1].returned # "error" /\ voting.recent[2].returned # "error"
  /\ voting.recent[1].had = "none"

\* C26: a user without a vote who casts the same type twice in succession on a
\* review or a complaint ends with no vote row and with both counters as they
\* were before the first call, and the second call returns voteType null; who
\* casts the opposite type second ends with one row of that type; no user ever
\* has two vote rows on one target.
C26_VoteToggle ==
  /\ \A k \in {"review", "complaint"}, u \in Users :
       Cardinality({row \in voting.rows[k] : row.userId = u}) <= 1
  /\ TwoVotes =>
       LET a == voting.recent[1]
           b == voting.recent[2]
           mine == {row \in voting.rows[a.kind] : row.userId = a.userId}
       IN IF a.voteType = b.voteType
            THEN /\ mine = {}
                 /\ b.returned = "null"
                 /\ voting.counts[a.kind] = a.before
            ELSE \E row \in mine : mine = {row} /\ row.voteType = b.voteType

\* C25: after two CommentsService.vote requests for one comment, interleaved
\* at their awaits, have both finished, with a result or with an error, the
\* comment's helpfulCount is the number of its UP rows, its downVoteCount the
\* number of its DOWN rows, and neither is negative.
C25_CommentVoteRace ==
  (voting.calls # <<>> /\ \A q \in Requests : voting.calls[q].pc \in {"done", "failed"}) =>
    CountersAgree("comment")

\* ---- sessions ----------------------------------------------------------------
\* the last guarded request was treated as authenticated
Authenticated == auth.last # None /\ auth.last[1].outcome \notin {"null", "Unauthorized"}

\* C27: a guard treats a request as authenticated only when a session row for
\* its token exists and has not expired; a request that presents a token whose
\* row a logout has deleted is treated as unauthenticated: AuthGuard rejects it
\* with Unauthorized and OptionalAuthGuard sets user to null.
C27_SessionLifecycle ==
  /\ Authenticated => (auth.last[1].hadRow /\ auth.last[1].inTime)
  /\ (auth.last # None /\ auth.last[1].afterLogout) => ~Authenticated

\* ---- complaint replies -------------------------------------------------------
\* a complaint that appears was created OPEN, and a status changes only from
\* OPEN to IN_PROGRESS
StatusSteps ==
  \A c \in replying'.complaints :
    IF Exists(c.id)
      THEN c.status # StatusOf(c.id) => (StatusOf(c.id) = "OPEN" /\ c.status = "IN_PROGRESS")
      ELSE c.status = "OPEN"

\* a reply that failed left no reply row and wrote no status
FailedRepliesLeaveNothing ==
  \A q \in Requests :
    replying.calls[q].pc = "failed" =>
      /\ ~replying.calls[q].wrote
      /\ ~\E r \in replying.replies : r.by = q

\* a reply that returned left its row, and its complaint is not OPEN
RepliedNotOpen ==
  \A q \in Requests :
    replying.calls[q].pc = "done" =>
      /\ \E r \in replying.replies : r.by = q /\ r.complaintId = replying.calls[q].id
      /\ StatusOf(replying.calls[q].id) # "OPEN"

\* C28: a complaint is created OPEN; reply changes a status only from OPEN to
\* IN_PROGRESS and leaves IN_PROGRESS, RESOLVED and CLOSED as they are; a reply
\* that fails creates no reply row and changes no status; after a reply has
\* returned the complaint is not OPEN, also when two replies interleave.
C28_StatusTransitions ==
  [][StatusSteps /\ FailedRepliesLeaveNothing' /\ RepliedNotOpen']_vars

\* two replies to one complaint both read it OPEN and both returned
C28_Witness ==
  /\ \A q \in Requests : replying.calls[q].pc = "done" /\ replying.calls[q].status = "OPEN"
  /\ replying.calls["a"].id = replying.calls["b"].id

\* ---- the legacy store's write lock ------------------------------------------
\* the callback of link k is between its loadStore and the end of its persist
Inside(k) == store.links[k].state \in {"loaded", "updated"}

\* C29: an updateStore call fails only when its own updater threw; every call
\* whose turn has come runs its updater, and a call that returned has its
\* change persisted; two updaters are never inside the lock together.
C29_WriteLockRecovery ==
  /\ \A k \in 1..Len(store.links) :
       /\ store.links[k].state = "rejected" => store.links[k].ran
       /\ store.links[k].state = "fulfilled" => store.links[k].ran
  /\ \A j, k \in 1..Len(store.links) : (Inside(j) /\ Inside(k)) => j = k
  /\ (\A k \in 1..Len(store.links) : Settled(store.links[k])) => store.disk = store.cache

\* ---- the CSRF middleware -----------------------------------------------------
\* the origin the request claims: its Origin header, or without one the
\* origin of its Referer
ClaimedOrigin(request) ==
  IF request.origin # None THEN <<request.origin>>
  ELSE IF request.referer # None /\ request.referer.url
    THEN <<[scheme |-> request.referer.scheme, host |-> request.referer.host,
            port |-> IF request.referer.port = "80" THEN "" ELSE request.referer.port]>>
  ELSE <<>>

\* C30: a POST, PUT, PATCH or DELETE request that carries a session cookie is
\* passed on exactly when its Origin, or without one the origin of its
\* Referer, is an allowed origin, and is answered 403 otherwise; every other
\* request is passed on.
C30_CsrfGate ==
  (gate # None /\ gate[1].response # "pending") =>
    LET request == gate[1].request
        guarded == /\ request.method \in {"POST", "PUT", "PATCH", "DELETE"}
                   /\ GetSessionTokenFromRequest(request) # <<>>
        allowed == /\ ClaimedOrigin(request) # <<>>
                   /\ ClaimedOrigin(request)[1] \in AllowedOrigins
    IN gate[1].response = IF guarded /\ ~allowed THEN "403" ELSE "next"

====
